---- MODULE Spec2Model ----
(***************************************************************************)
(* Model of r2x/exporter/sienna.py: the SiennaExporter constructor, the    *)
(* run() workflow with its per-entity export procedures, and the           *)
(* operation-cost translator apply_operation_table_data.                   *)
(*                                                                         *)
(* Python dicts are functions with a string domain.  A "quantity" (pint)   *)
(* is a record [magnitude, units]; a reference to another component is the *)
(* record of that component.  Numbers that are floats in the program are   *)
(* fixed-point hundredths (fuel_cost 0.05 is 5, fuel_price 50.0 is 5000).  *)
(***************************************************************************)
EXTENDS Integers, Sequences, FiniteSets, TLC

VARIABLES
    config,        \* the Scenario handed to the constructor
    phase,         \* "new" | "running" | "done" | "failed"
    step,          \* index in RunOrder of the next procedure of run()
    system,        \* the component store (read-only during run)
    property_map,  \* self.property_map
    executed,      \* procedures of run() that have been entered, in order
    rows_out,      \* procedure -> export records handed to the table writer
    files,         \* file name -> content written
    rename_used,   \* procedure -> property map given to apply_property_map
    err,           \* [kind, at] of the exception that left run()/__init__
    op_in,         \* apply_operation_table_data: the component passed in
    op_obj,        \* ... the same dict object after the call (mutated in place)
    op_ret,        \* ... the value returned (None when it raised)
    op_raised      \* ... the exception raised, "none" when it returned

vars == <<config, phase, step, system, property_map, executed, rows_out, files,
          rename_used, err, op_in, op_obj, op_ret, op_raised>>

runVars == <<config, phase, step, system, property_map, executed, rows_out,
             files, rename_used, err>>

opVars == <<op_in, op_obj, op_ret, op_raised>>

----------------------------------------------------------------------------
(* Bounds of the model.                                                    *)

MaxGens == 2      \* generators in the store
MaxMaps == 2      \* ReserveMap components in the store
MaxPoints == 3    \* points of a piecewise value curve

----------------------------------------------------------------------------
(* Python primitives.                                                      *)

EmptyDict == [k \in {} |-> 0]

None == [py |-> "None"]

NoError == [kind |-> "none", at |-> "none"]

\* d[k] = v
Put(d, k, v) == [q \in DOMAIN d \cup {k} |-> IF q = k THEN v ELSE d[q]]

\* a | b : the right operand wins on a key both have
DictMerge(a, b) ==
    [k \in DOMAIN a \cup DOMAIN b |-> IF k \in DOMAIN b THEN b[k] ELSE a[k]]

Digits == <<"0", "1", "2", "3", "4", "5", "6", "7", "8", "9">>

RECURSIVE IntToStr(_)
\* f"{i}" of a non-negative integer
IntToStr(i) ==
    IF i < 10 THEN Digits[i + 1]
    ELSE IntToStr(i \div 10) \o Digits[(i % 10) + 1]

Range(s) == {s[i] : i \in DOMAIN s}

RECURSIVE SeqsNoRep(_, _)
\* sequences of length <= n of distinct elements of S
SeqsNoRep(S, n) ==
    IF n = 0 THEN {<<>>}
    ELSE LET shorter == SeqsNoRep(S, n - 1)
         IN  shorter \cup
             UNION {{Append(s, x) : x \in S \ Range(s)} : s \in shorter}

RECURSIVE SeqsUpTo(_, _)
\* sequences of length <= n of elements of S
SeqsUpTo(S, n) ==
    IF n = 0 THEN {<<>>}
    ELSE LET shorter == SeqsUpTo(S, n - 1)
         IN  shorter \cup {Append(s, x) : s \in shorter, x \in S}

----------------------------------------------------------------------------
(* apply_operation_table_data and _variable_type_parsing.                  *)
(* An Optional[float] is None or [py |-> "float", v |-> n].  A function    *)
(* data object is a dict whose domain is its model_fields_set.             *)

\* haskey(variable, [k1, k2])
HasKey(d, k1, k2) == k1 \in DOMAIN d /\ k2 \in DOMAIN d[k1]

RECURSIVE CostCurvePoints(_, _, _)
\* the loop of case "CostCurve", from 0-based index i on
CostCurvePoints(component, x_y_coords, i) ==
    IF i >= Len(x_y_coords) THEN component
    ELSE CostCurvePoints(
             Put(Put(component, "output_point_" \o IntToStr(i), x_y_coords[i + 1][1]),
                 "cost_point_" \o IntToStr(i), x_y_coords[i + 1][2]),
             x_y_coords, i + 1)

RECURSIVE FuelCurvePointsAllIncr(_, _, _)
\* the loop of case "FuelCurve" naming every heat-rate column heat_rate_incr_i
FuelCurvePointsAllIncr(component, x_y_coords, i) ==
    IF i >= Len(x_y_coords) THEN component
    ELSE FuelCurvePointsAllIncr(
             Put(Put(component, "output_point_" \o IntToStr(i), x_y_coords[i + 1][1]),
                 "heat_rate_incr_" \o IntToStr(i), x_y_coords[i + 1][2]),
             x_y_coords, i + 1)

RECURSIVE FuelCurvePoints(_, _, _)
\* the loop of case "FuelCurve", from 0-based index i on
FuelCurvePoints(component, x_y_coords, i) ==
    IF i >= Len(x_y_coords) THEN component
    ELSE LET heat_rate_col ==
                 IF i = 0 THEN "heat_rate_avg_0"
                 ELSE "heat_rate_incr_" \o IntToStr(i)
         IN  FuelCurvePoints(
                 Put(Put(component, "output_point_" \o IntToStr(i), x_y_coords[i + 1][1]),
                     heat_rate_col, x_y_coords[i + 1][2]),
                 x_y_coords, i + 1)

\* _variable_type_parsing with the default case handled like "CostCurve"
VariableTypeParsingDefaultCost(component, cost_dict) ==
    LET x_y_coords == cost_dict["variable"]["value_curve"]["function_data"]["points"]
        filled == IF cost_dict["variable_type"] = "FuelCurve"
                  THEN FuelCurvePoints(component, x_y_coords, 0)
                  ELSE CostCurvePoints(component, x_y_coords, 0)
    IN  [obj |-> filled, ret |-> filled, raised |-> "none"]

\* _variable_type_parsing without its final return statement
VariableTypeParsingNoReturn(component, cost_dict) ==
    LET x_y_coords == cost_dict["variable"]["value_curve"]["function_data"]["points"]
    IN  CASE cost_dict["variable_type"] = "CostCurve" ->
                 [obj |-> CostCurvePoints(component, x_y_coords, 0),
                  ret |-> None, raised |-> "none"]
          [] cost_dict["variable_type"] = "FuelCurve" ->
                 [obj |-> FuelCurvePoints(component, x_y_coords, 0),
                  ret |-> None, raised |-> "none"]
          [] OTHER ->
                 [obj |-> component, ret |-> None, raised |-> "NotImplementedError"]

\* _variable_type_parsing(component, cost_dict): obj is the component dict
\* after the call, ret the value returned (the same dict), None when it raises
VariableTypeParsing(component, cost_dict) ==
    LET x_y_coords == cost_dict["variable"]["value_curve"]["function_data"]["points"]
    IN  CASE cost_dict["variable_type"] = "CostCurve" ->
                 LET filled == CostCurvePoints(component, x_y_coords, 0)
                 IN  [obj |-> filled, ret |-> filled, raised |-> "none"]
          [] cost_dict["variable_type"] = "FuelCurve" ->
                 LET filled == FuelCurvePoints(component, x_y_coords, 0)
                 IN  [obj |-> filled, ret |-> filled, raised |-> "none"]
          [] OTHER ->
                 [obj |-> component, ret |-> None, raised |-> "NotImplementedError"]

\* component["variable_cost"] = ... when variable has vom_cost.function_data
WithVariableCost(component, variable) ==
    IF HasKey(variable, "vom_cost", "function_data")
    THEN Put(component, "variable_cost",
             variable["vom_cost"]["function_data"]["proportional_term"])
    ELSE component

\* assert variable["fuel_cost"] is not None
FuelCostAssertFails(variable) ==
    "fuel_cost" \in DOMAIN variable /\ variable["fuel_cost"] = None

\* fuel_price written without the factor 1000
WithFuelPriceUnscaled(component, variable) ==
    IF "fuel_cost" \in DOMAIN variable
    THEN Put(component, "fuel_price", variable["fuel_cost"].v)
    ELSE component

\* component["fuel_price"] = variable["fuel_cost"] * 1000
WithFuelPrice(component, variable) ==
    IF "fuel_cost" \in DOMAIN variable
    THEN Put(component, "fuel_price", variable["fuel_cost"].v * 1000)
    ELSE component

\* heat_rate_a0 / a1 / a2 from the terms in model_fields_set
WithHeatRateTerms(component, function_data) ==
    LET c0 == IF "constant_term" \in DOMAIN function_data
              THEN Put(component, "heat_rate_a0", function_data["constant_term"])
              ELSE component
        c1 == IF "proportional_term" \in DOMAIN function_data
              THEN Put(c0, "heat_rate_a1", function_data["proportional_term"])
              ELSE c0
    IN  IF "quadratic_term" \in DOMAIN function_data
        THEN Put(c1, "heat_rate_a2", function_data["quadratic_term"])
        ELSE c1

\* apply_operation_table_data(component)
ApplyOperationTableData(component) ==
    IF "operation_cost" \notin DOMAIN component
    THEN [obj |-> component, ret |-> component, raised |-> "none"]
    ELSE
    LET operation_cost == component["operation_cost"] IN
    IF "variable" \notin DOMAIN operation_cost
           \/ operation_cost["variable"] = EmptyDict
    THEN [obj |-> component, ret |-> component, raised |-> "none"]
    ELSE
    LET variable == operation_cost["variable"]
        c1 == WithVariableCost(component, variable)
    IN
    IF FuelCostAssertFails(variable)
    THEN [obj |-> c1, ret |-> None, raised |-> "AssertionError"]
    ELSE
    LET c2 == WithFuelPrice(c1, variable) IN
    IF ~HasKey(variable, "value_curve", "function_data")
    THEN [obj |-> c2, ret |-> c2, raised |-> "none"]
    ELSE
    LET function_data == variable["value_curve"]["function_data"]
        c3 == WithHeatRateTerms(c2, function_data)
    IN
    IF "points" \in DOMAIN function_data
    THEN VariableTypeParsing(c3, operation_cost)
    ELSE [obj |-> c3, ret |-> c3, raised |-> "none"]

----------------------------------------------------------------------------
(* Pipeline stages of r2x.exporter.utils and the table writer of the       *)
(* component store (collaborators of this file).                           *)

\* keys whose values are pint quantities, under their source and target names
QuantityKeys ==
    {"base_voltage", "max_active_power", "rating", "rate", "active_power",
     "max_requirement", "requirement", "rating_mva"}

\* apply_property_map(component, property_map): rename keys, others pass
ApplyPropertyMap(component, map) ==
    LET target(k) == IF k \in DOMAIN map THEN map[k] ELSE k
    IN  [t \in {target(k) : k \in DOMAIN component} |->
            component[CHOOSE k \in DOMAIN component : target(k) = t]]

\* apply_pint_deconstruction(component, unit_map) with an empty unit map:
\* every quantity becomes its magnitude
ApplyPintDeconstruction(component) ==
    [k \in DOMAIN component |->
        IF k \in QuantityKeys THEN component[k].magnitude ELSE component[k]]

\* apply_unnest_key(component, key_map): the referenced component's attribute
ApplyUnnestKey(component, key_map) ==
    [k \in DOMAIN component |->
        IF k \in DOMAIN key_map THEN component[k][key_map[k]] ELSE component[k]]

\* apply_flatten_key(component, {key}): lift the inner fields, drop the outer
ApplyFlattenKey(component, key) ==
    IF key \notin DOMAIN component THEN component
    ELSE LET inner == component[key]
             lifted == {key \o "_" \o i : i \in DOMAIN inner}
         IN  [k \in (DOMAIN component \ {key}) \cup lifted |->
                 IF k \in lifted
                 THEN inner[CHOOSE i \in DOMAIN inner : key \o "_" \o i = k]
                 ELSE component[k]]

\* apply_default_value(component, default_value_map): fill absent keys only
ApplyDefaultValue(component, defaults) ==
    [k \in DOMAIN component \cup DOMAIN defaults |->
        IF k \in DOMAIN component THEN component[k] ELSE defaults[k]]

\* _export_dict_to_csv(rows, fields=..., restval=...): one line per row
ExportDictToCsv(rows, fields, restval) ==
    [i \in DOMAIN rows |->
        [f \in fields |-> IF f \in DOMAIN rows[i] THEN rows[i][f] ELSE restval]]

----------------------------------------------------------------------------
(* The component store.                                                    *)

Quantity(m, u) == [magnitude |-> m, units |-> u]

Zone1 == [name |-> "zone1"]

Bus1 ==
    [name |-> "bus1", number |-> 1, load_zone |-> Zone1,
     base_voltage |-> Quantity(230, "kV"), bus_type |-> "PV"]

Bus2 ==
    [name |-> "bus2", number |-> 2, load_zone |-> Zone1,
     base_voltage |-> Quantity(115, "kV"), bus_type |-> "PQ"]

Load1 ==
    [name |-> "load1", bus |-> Bus1, max_active_power |-> Quantity(100, "MW")]

Line1 ==
    [name |-> "line1", from_bus |-> Bus1, to_bus |-> Bus2, class_type |-> "Line",
     rating |-> Quantity(500, "MW"), r |-> 1, x |-> 2, b |-> 3]

\* a transformer whose tap is set (1.05)
Transformer1 ==
    [name |-> "tx1", from_bus |-> Bus1, to_bus |-> Bus2,
     class_type |-> "Transformer2W", rating |-> Quantity(300, "MW"),
     r |-> 1, x |-> 2, tap |-> [py |-> "float", v |-> 105]]

\* a transformer whose tap is null
Transformer2 ==
    [name |-> "tx2", from_bus |-> Bus2, to_bus |-> Bus1,
     class_type |-> "Transformer2W", rating |-> Quantity(200, "MW"),
     r |-> 1, x |-> 2, tap |-> None]

\* an AC branch of another class that has a tap of its own (0.98)
TapTransformer1 ==
    [name |-> "tap1", from_bus |-> Bus1, to_bus |-> Bus2,
     class_type |-> "TapTransformer", rating |-> Quantity(250, "MW"),
     r |-> 1, x |-> 2, tap |-> [py |-> "float", v |-> 98]]

DCLine1 ==
    [name |-> "dc1", from_bus |-> Bus1, to_bus |-> Bus2,
     class_type |-> "TModelHVDCLine", rating_up |-> 400, loss |-> 0]

\* the label a record of System.to_records uses for a referenced component
BusLabel(bus) == "Bus." \o bus.name

Limits == [min |-> 0, max |-> 100]

\* a thermal generator whose value curve is quadratic
GenQuadratic ==
    [name |-> "g_a", class_type |-> "ThermalStandard", bus |-> Bus1,
     active_power |-> Quantity(80, "MW"), active_power_limits |-> Limits,
     operation_cost |->
        [variable_type |-> "FuelCurve",
         variable |->
            [fuel_cost |-> [py |-> "float", v |-> 5],
             value_curve |->
                [function_data |->
                    [constant_term |-> 100, proportional_term |-> 20]]]]]

\* a thermal generator whose value curve is piecewise, as a CostCurve
GenPiecewise ==
    [name |-> "g_b", class_type |-> "ThermalStandard", bus |-> Bus2,
     active_power |-> Quantity(60, "MW"), active_power_limits |-> Limits,
     operation_cost |->
        [variable_type |-> "CostCurve",
         variable |->
            [value_curve |->
                [function_data |-> [points |-> <<<<0, 0>>, <<50, 1000>>>>]]]]]

\* a generator whose piecewise curve carries another variable_type
GenUnsupported ==
    [name |-> "g_c", class_type |-> "ThermalStandard", bus |-> Bus1,
     active_power |-> Quantity(40, "MW"), active_power_limits |-> Limits,
     operation_cost |->
        [variable_type |-> "InputOutputCurve",
         variable |->
            [value_curve |->
                [function_data |-> [points |-> <<<<0, 0>>, <<50, 1000>>>>]]]]]

StoragePumped ==
    [name |-> "s_a", class_type |-> "HydroPumpedStorage", bus |-> Bus1,
     active_power |-> Quantity(30, "MW"), rating |-> Quantity(35, "MW"),
     active_power_limits |-> Limits, storage_capacity |-> 200]

StorageBattery ==
    [name |-> "s_b", class_type |-> "EnergyReservoirStorage", bus |-> Bus2,
     active_power |-> Quantity(15, "MW"), rating |-> Quantity(18, "MW"),
     active_power_limits |-> Limits, storage_capacity |-> 60]

GeneratorPool ==
    {GenQuadratic, GenPiecewise, GenUnsupported, StoragePumped, StorageBattery}

\* isinstance(x, Storage | HydroPumpedStorage)
IsStorage(gen) ==
    gen.class_type \in {"HydroPumpedStorage", "EnergyReservoirStorage"}

Direction(n) == [name |-> n]

Reserve1 ==
    [name |-> "r1", direction |-> Direction("UP"), region |-> Zone1,
     max_requirement |-> Quantity(50, "MW"), timeframe |-> 300]

Reserve2 ==
    [name |-> "r2", direction |-> Direction("DOWN"), region |-> Zone1,
     max_requirement |-> Quantity(25, "MW"), timeframe |-> 600]

ReserveChoices == {<<>>, <<Reserve1, Reserve2>>}

\* the mapping of a ReserveMap: reserve name -> contributing device names
ReserveMapChoices ==
    {[r1 |-> <<"g_a", "s_a">>, r3 |-> <<"g_b">>],
     [r2 |-> <<"g_a">>]}

\* the metadata of the time series attached to the component of each name
\* (resolution in seconds), in list order
TimeSeriesMetadata ==
    [bus1 |-> <<>>,
     load1 |-> <<>>,
     g_a |-> <<[variable_name |-> "max_active_power", resolution |-> 3600],
               [variable_name |-> "rating", resolution |-> 1800]>>,
     g_b |-> <<[variable_name |-> "max_active_power", resolution |-> 3600]>>,
     g_c |-> <<>>,
     s_a |-> <<[variable_name |-> "max_active_power", resolution |-> 900]>>,
     s_b |-> <<>>]

\* the components of the store, in store order, each with the metadata of
\* the time series attached to it
TimeSeriesStore(generators) ==
    LET entry(c, n) ==
            [category |-> c, name |-> n, metadata |-> TimeSeriesMetadata[n]]
    IN  <<entry("ACBus", "bus1"), entry("PowerLoad", "load1")>>
        \o [i \in DOMAIN generators |->
                entry(generators[i]["class_type"], generators[i]["name"])]

PropertyMapChoices ==
    {EmptyDict,
     [number |-> "bus_number", bus |-> "bus_name", rating |-> "rating_mva",
      region |-> "region_name", base_power |-> "base_mva"]}

Systems ==
    {[buses |-> <<Bus1, Bus2>>,
      loads |-> <<Load1>>,
      ac_branches |-> <<Line1, Transformer1, Transformer2, TapTransformer1>>,
      dc_branches |-> <<DCLine1>>,
      generators |-> g,
      reserves |-> r,
      reserve_maps |-> m,
      time_series |-> TimeSeriesStore(g)] :
        g \in SeqsNoRep(GeneratorPool, MaxGens),
        r \in ReserveChoices,
        m \in SeqsUpTo(ReserveMapChoices, MaxMaps)}

NoSystem ==
    [buses |-> <<>>, loads |-> <<>>, ac_branches |-> <<>>, dc_branches |-> <<>>,
     generators |-> <<>>, reserves |-> <<>>, reserve_maps |-> <<>>,
     time_series |-> <<>>]

----------------------------------------------------------------------------
(* The export procedures.  Each yields an outcome: the exception it raises *)
(* ("none" when it returns), whether it returned before writing (skipped), *)
(* the records it hands to the table writer, the property map it renamed   *)
(* keys with, and the lines of the file.                                   *)

Outcome(raised, skipped, rows, map, csv) ==
    [raised |-> raised, skipped |-> skipped, rows |-> rows, map |-> map, csv |-> csv]

Written(rows, map, fields, restval) ==
    Outcome("none", FALSE, rows, map, ExportDictToCsv(rows, fields, restval))

Skipped == Outcome("none", TRUE, <<>>, EmptyDict, <<>>)

Raises(kind) == Outcome(kind, FALSE, <<>>, EmptyDict, <<>>)

BusKeyMapping == [number |-> "bus_id", load_zone |-> "zone"]

BusFields == {"bus_id", "name", "area", "zone", "base_voltage", "bus_type"}

\* process_bus_data
ProcessBusData(sys, pmap) ==
    LET map == DictMerge(pmap, BusKeyMapping)
        unnest == [zone |-> "name", area |-> "name"]
        export(r) ==
            ApplyUnnestKey(ApplyPintDeconstruction(ApplyPropertyMap(r, map)), unnest)
        rows == [i \in DOMAIN sys.buses |-> export(sys.buses[i])]
    IN  Written(rows, map, BusFields, "NA")

LoadKeyMapping == [bus |-> "bus_id"]

LoadFields ==
    {"bus_id", "name", "available", "active_power", "reactive_power",
     "max_active_power", "max_reeactive_power"}

\* process_load_data
ProcessLoadData(sys, pmap) ==
    LET map == DictMerge(pmap, LoadKeyMapping)
        export(r) ==
            ApplyUnnestKey(ApplyPintDeconstruction(ApplyPropertyMap(r, map)),
                           [bus_id |-> "number"])
        rows == [i \in DOMAIN sys.loads |-> export(sys.loads[i])]
    IN  Written(rows, map, LoadFields, "0.0")

BranchKeyMapping ==
    [from_bus |-> "connection_points_from", to_bus |-> "connection_points_to",
     class_type |-> "branch_type", rating |-> "rate", b |-> "primary_shunt"]

BranchFields ==
    {"name", "connection_points_from", "connection_points_to", "r", "x",
     "primary_shunt", "rate", "rating_up", "rating_down", "tap",
     "is_transformer", "ext"}

\* the default tap, 1.0
DefaultTap == 100

\* component.model_dump(exclude_none=True, ...) of an AC branch: the fields
\* that are not None, tap (the Optional field of the branches) as its float
BranchModelDump(component) ==
    LET kept == {k \in DOMAIN component : k # "tap" \/ component[k] # None}
    IN  [k \in kept |-> IF k = "tap" THEN component[k].v ELSE component[k]]

\* process_branch_data with a last stage that sets tap on every record
ProcessBranchDataTapOverwritten(sys, pmap) ==
    LET map == DictMerge(pmap, BranchKeyMapping)
        unnest == [connection_points_from |-> "number",
                   connection_points_to |-> "number"]
        export(r) ==
            LET d == ApplyUnnestKey(
                         ApplyPintDeconstruction(ApplyPropertyMap(r, map)), unnest)
                t == Put(d, "is_transformer", d["branch_type"] = "Transformer2W")
            IN  Put(t, "tap", DefaultTap)
        rows == [i \in DOMAIN sys.ac_branches |->
                    export(BranchModelDump(sys.ac_branches[i]))]
    IN  Written(rows, map, BranchFields, "NA")

\* process_branch_data
ProcessBranchData(sys, pmap) ==
    LET map == DictMerge(pmap, BranchKeyMapping)
        unnest == [connection_points_from |-> "number",
                   connection_points_to |-> "number"]
        export(r) ==
            LET d == ApplyUnnestKey(
                         ApplyPintDeconstruction(ApplyPropertyMap(r, map)), unnest)
                t == Put(d, "is_transformer", d["branch_type"] = "Transformer2W")
            IN  ApplyDefaultValue(t, [tap |-> DefaultTap])
        rows == [i \in DOMAIN sys.ac_branches |->
                    export(BranchModelDump(sys.ac_branches[i]))]
    IN  Written(rows, map, BranchFields, "NA")

DCBranchKeyMapping ==
    [from_bus |-> "connection_points_from", to_bus |-> "connection_points_to",
     class_type |-> "branch_type", rating_up |-> "rate"]

DCBranchFields ==
    {"name", "connection_points_from", "connection_points_to", "rate", "loss"}

\* process_dc_branch_data: export_component_to_csv(DCBranch, ...)
ProcessDCBranchData(sys) ==
    LET unnest == [connection_points_from |-> "number",
                   connection_points_to |-> "number"]
        export(r) == ApplyUnnestKey(ApplyPropertyMap(r, DCBranchKeyMapping), unnest)
        rows == [i \in DOMAIN sys.dc_branches |-> export(sys.dc_branches[i])]
    IN  Written(rows, DCBranchKeyMapping, DCBranchFields, "NA")

GenKeyMapping == [bus |-> "bus_id", prime_mover_type |-> "unit_type"]

\* self.output_fields["generator"], the schema the configuration supplies
GenFields ==
    {"name", "bus_id", "unit_type", "active_power", "active_power_limits_max",
     "active_power_limits_min", "fuel_price", "variable_cost", "startup_cost",
     "power_factor", "heat_rate_a0", "heat_rate_a1", "heat_rate_a2",
     "output_point_0", "cost_point_0", "heat_rate_avg_0"}

GenDefaults == [fuel_price |-> 0, power_factor |-> 100, startup_cost |-> 0]

\* the order of the component names as Python strings
NameOrder == <<"g_a", "g_b", "g_c", "s_a", "s_b">>

NameRank(n) == CHOOSE i \in DOMAIN NameOrder : NameOrder[i] = n

RECURSIVE SortedByName(_)
\* sorted(rows, key=itemgetter("name")): the sort without reverse=True
SortedByName(rows) ==
    IF rows = <<>> THEN <<>>
    ELSE LET n == Len(rows)
             last == rows[n]
             front == SortedByName(SubSeq(rows, 1, n - 1))
             k == Cardinality({i \in DOMAIN front :
                                  NameRank(front[i]["name"]) <= NameRank(last["name"])})
         IN  SubSeq(front, 1, k) \o <<last>> \o SubSeq(front, k + 1, Len(front))

RECURSIVE SortedByNameReverse(_)
\* sorted(rows, key=itemgetter("name"), reverse=True): stable
SortedByNameReverse(rows) ==
    IF rows = <<>> THEN <<>>
    ELSE LET n == Len(rows)
             last == rows[n]
             front == SortedByNameReverse(SubSeq(rows, 1, n - 1))
             \* last goes after every row whose name is >= its own
             k == Cardinality({i \in DOMAIN front :
                                  NameRank(front[i]["name"]) >= NameRank(last["name"])})
         IN  SubSeq(front, 1, k) \o <<last>> \o SubSeq(front, k + 1, Len(front))

\* the stages of process_gen_data after apply_operation_table_data
GenLaterStages(r, map) ==
    ApplyDefaultValue(
        ApplyUnnestKey(
            ApplyPintDeconstruction(
                ApplyPropertyMap(ApplyFlattenKey(r, "active_power_limits"), map)),
            [bus_id |-> "number"]),
        GenDefaults)

\* the exception process_gen_data raises for these records, "none" if none:
\* that of the first record apply_operation_table_data fails on
GenError(records) ==
    LET failing == {i \in DOMAIN records :
                       ApplyOperationTableData(records[i]).raised # "none"}
        first == CHOOSE i \in failing : \A j \in failing : i <= j
    IN  IF failing = {} THEN "none"
        ELSE ApplyOperationTableData(records[first]).raised

\* process_gen_data
ProcessGenData(sys, pmap) ==
    LET records == sys.generators
        map == DictMerge(pmap, GenKeyMapping)
        export(r) == GenLaterStages(ApplyOperationTableData(r).ret, map)
        export_records == [i \in DOMAIN records |-> export(records[i])]
    IN  IF GenError(records) # "none" THEN Raises(GenError(records))
        ELSE Written(SortedByNameReverse(export_records), map, GenFields, "NA")

ReserveKeyMapping == [region |-> "eligible_region", max_requirement |-> "requirement"]

ReserveFields ==
    {"name", "requirement", "timeframe", "eligible_region", "direction",
     "contributing_devices", "eligible_device_categories",
     "eligible_device_subcategories"}

RECURSIVE JoinNames(_)
JoinNames(devices) ==
    IF Len(devices) = 1 THEN devices[1]
    ELSE devices[1] \o ", " \o JoinNames(Tail(devices))

\* str(tuple(devices)).replace("'", "")
TupleLiteral(devices) ==
    IF devices = <<>> THEN "()"
    ELSE IF Len(devices) = 1 THEN "(" \o devices[1] \o ",)"
    ELSE "(" \o JoinNames(devices) \o ")"

RECURSIVE ReserveOutputDataUnfiltered(_, _)
\* the loop without the test that the reserve is a key of the map
ReserveOutputDataUnfiltered(reserves, reserve_map) ==
    IF reserves = <<>> THEN <<>>
    ELSE LET reserve == Head(reserves)
             devices == IF reserve["name"] \in DOMAIN reserve_map
                        THEN reserve_map[reserve["name"]] ELSE <<>>
             d1 == Put(reserve, "direction", reserve["direction"].name)
             d2 == Put(d1, "eligible_device_categories", "(Generator,Storage)")
             d3 == Put(d2, "contributing_devices", TupleLiteral(devices))
         IN  <<d3>> \o ReserveOutputDataUnfiltered(Tail(reserves), reserve_map)

RECURSIVE ReserveOutputData(_, _)
\* the loop of process_reserves_data over the Reserve records
ReserveOutputData(reserves, reserve_map) ==
    IF reserves = <<>> THEN <<>>
    ELSE LET reserve == Head(reserves)
             rest == ReserveOutputData(Tail(reserves), reserve_map)
         IN  IF reserve["name"] \in DOMAIN reserve_map
             THEN LET d1 == Put(reserve, "direction", reserve["direction"].name)
                      d2 == Put(d1, "eligible_device_categories", "(Generator,Storage)")
                      d3 == Put(d2, "contributing_devices",
                                TupleLiteral(reserve_map[reserve["name"]]))
                  IN  <<d3>> \o rest
             ELSE rest

\* only the first early return: several maps, the first one is used
ReservesSkippedOnlyEmpty(reserve_map_list) == reserve_map_list = <<>>

\* the two early returns of process_reserves_data
ReservesSkipped(reserve_map_list) ==
    reserve_map_list = <<>> \/ Len(reserve_map_list) > 1

\* key_mapping = {...} | self.property_map, then self.property_map | key_mapping
ReserveRenameMap(pmap) == DictMerge(pmap, DictMerge(ReserveKeyMapping, pmap))

\* process_reserves_data
ProcessReservesData(sys, pmap) ==
    IF ReservesSkipped(sys.reserve_maps) THEN Skipped
    ELSE LET reserve_map == sys.reserve_maps[1]
             output_data == ReserveOutputData(sys.reserves, reserve_map)
             map == ReserveRenameMap(pmap)
             export(r) ==
                 LET d == ApplyPintDeconstruction(ApplyPropertyMap(r, map))
                 IN  ApplyUnnestKey(d, [eligible_region |-> "name"])
             rows == [i \in DOMAIN output_data |-> export(output_data[i])]
         IN  Written(rows, map, ReserveFields, "NA")

StorageFields ==
    {"name", "position", "available", "generator_name", "bus_id", "active_power",
     "rating", "input_efficiency", "output_efficiency", "storage_capacity",
     "min_storage_capacity", "max_storage_capacity",
     "input_active_power_limit_min", "output_active_power_limit_max",
     "output_active_power_limit_min", "unit_type"}

\* a record of System.to_records: a referenced bus is given by its label
ToRecord(gen) == [gen EXCEPT !["bus"] = BusLabel(@)]

\* getattr(self.system.get_component_by_label(label), "number", None)
BusNumberByLabel(sys, label) ==
    LET found == {i \in DOMAIN sys.buses : BusLabel(sys.buses[i]) = label}
    IN  sys.buses[CHOOSE i \in found : TRUE]["number"]

\* the keys the loop of process_storage_data reads with storage[...]
StorageKeysRead == {"name", "active_power_limits_max", "active_power", "bus", "rating"}

\* the tail copy taken before generator_name and bus_id are set
StorageRowsEarlyCopy(sys, storage) ==
    LET original_name == storage["name"]
        d1 == Put(storage, "generator_name", storage["name"])
        d2 == Put(d1, "input_active_power_limit_max", d1["active_power_limits_max"])
        d3 == Put(d2, "output_active_power_limit_max", d2["active_power_limits_max"])
        d4 == Put(d3, "input_active_power_limit_min", 0)
        d5 == Put(d4, "output_active_power_limit_min", 0)
        d6 == Put(d5, "bus_id", BusNumberByLabel(sys, d5["bus"]))
        d7 == Put(d6, "name", original_name \o "_head")
        tail_copy == Put(Put(storage, "name", original_name \o "_tail"),
                         "position", "head")
    IN  <<Put(d7, "position", "tail"), tail_copy>>

\* the two rows the loop body leaves in output_data for one storage record.
\* output_dict is the appended object itself, so the assignment of position
\* "tail" after the copy lands on the row appended first.
StorageRows(sys, storage) ==
    LET d1 == Put(storage, "generator_name", storage["name"])
        d2 == Put(d1, "input_active_power_limit_max", d1["active_power_limits_max"])
        d3 == Put(d2, "output_active_power_limit_max", d2["active_power_limits_max"])
        d4 == Put(d3, "input_active_power_limit_min", 0)
        d5 == Put(d4, "output_active_power_limit_min", 0)
        d6 == Put(d5, "bus_id", BusNumberByLabel(sys, d5["bus"]))
        original_name == d6["name"]
        d7 == Put(d6, "name", original_name \o "_head")
        output_dict == Put(d7, "position", "head")
        tail_copy == Put(output_dict, "name", original_name \o "_tail")
    IN  <<Put(output_dict, "position", "tail"), tail_copy>>

RECURSIVE StorageOutputData(_, _)
StorageOutputData(sys, storage_list) ==
    IF storage_list = <<>> THEN <<>>
    ELSE StorageRows(sys, Head(storage_list)) \o
         StorageOutputData(sys, Tail(storage_list))

\* process_storage_data
ProcessStorageData(sys, pmap) ==
    LET records == SelectSeq(sys.generators, IsStorage)
        export(r) ==
            ApplyPintDeconstruction(
                ApplyFlattenKey(ApplyPropertyMap(ToRecord(r), pmap),
                                "active_power_limits"))
        storage_list == [i \in DOMAIN records |-> export(records[i])]
    IN  IF storage_list = <<>> THEN Skipped
        ELSE IF \E i \in DOMAIN storage_list :
                    ~(StorageKeysRead \subseteq DOMAIN storage_list[i])
        THEN Raises("KeyError")
        ELSE LET output_data == StorageOutputData(sys, storage_list)
                 renamed == [i \in DOMAIN output_data |->
                                ApplyPropertyMap(output_data[i], pmap)]
             IN  Outcome("none", FALSE, output_data, pmap,
                         ExportDictToCsv(renamed, StorageFields, "NA"))

\* the (component, metadata) pairs of the store, components in store order
\* and each component's metadata in list order
RECURSIVE TimeSeriesPairs(_)
TimeSeriesPairs(components) ==
    IF components = <<>> THEN <<>>
    ELSE LET c == Head(components)
         IN  [i \in DOMAIN c.metadata |-> [component |-> c, ts |-> c.metadata[i]]]
             \o TimeSeriesPairs(Tail(components))

\* f"{class}_{variable}_{config.name}_{reference_year}.csv" under Data
DataFile(cfg, pair) ==
    "Data/" \o pair.component.category \o "_" \o pair.ts.variable_name \o "_"
        \o cfg.name \o "_" \o IntToStr(cfg.year) \o ".csv"

\* export_data: time_series_to_csv writes one file per series
ExportData(cfg, sys) ==
    LET pairs == TimeSeriesPairs(sys.time_series)
        names == [i \in DOMAIN pairs |-> DataFile(cfg, pairs[i])]
    IN  Outcome("none", FALSE, <<>>, EmptyDict, names)

\* create_timeseries_pointers with the append after the inner loop: one
\* pointer per component, for its last metadata
CreateTimeseriesPointersOnePerComponent(cfg, sys) ==
    LET with_ts == SelectSeq(sys.time_series, LAMBDA c : c.metadata # <<>>)
        pairs == [i \in DOMAIN with_ts |->
                     [component |-> with_ts[i],
                      ts |-> with_ts[i].metadata[Len(with_ts[i].metadata)]]]
        pointer(p) ==
            [category |-> p.component.category,
             component_name |-> p.component.name,
             data_file |-> DataFile(cfg, p),
             normalization_factor |-> "MAX",
             resolution |-> p.ts.resolution,
             name |-> p.ts.variable_name,
             scaling_factor_multiplier_module |-> "PowerSystems",
             scaling_factor_multiplier |-> "get_max_active_power"]
        ts_pointers_list == [i \in DOMAIN pairs |-> pointer(pairs[i])]
    IN  Outcome("none", FALSE, ts_pointers_list, EmptyDict, ts_pointers_list)

\* create_timeseries_pointers
CreateTimeseriesPointers(cfg, sys) ==
    LET with_ts == SelectSeq(sys.time_series, LAMBDA c : c.metadata # <<>>)
        pairs == TimeSeriesPairs(with_ts)
        pointer(p) ==
            [category |-> p.component.category,
             component_name |-> p.component.name,
             data_file |-> DataFile(cfg, p),
             normalization_factor |-> "MAX",
             resolution |-> p.ts.resolution,
             name |-> p.ts.variable_name,
             scaling_factor_multiplier_module |-> "PowerSystems",
             scaling_factor_multiplier |-> "get_max_active_power"]
        ts_pointers_list == [i \in DOMAIN pairs |-> pointer(pairs[i])]
    IN  Outcome("none", FALSE, ts_pointers_list, EmptyDict, ts_pointers_list)

----------------------------------------------------------------------------
(* Construction and run().                                                 *)

\* the Scenario: the class of its output configuration and its input
\* configuration; only a ReEDSConfig has a solve_year (an int or a list)
Configs ==
    [name : {"scn"}, year : {2030},
     output_config : {"SiennaConfig", "PlexosConfig"},
     input_config : {[class |-> "ReEDSConfig", solve_year |-> "int"],
                     [class |-> "ReEDSConfig", solve_year |-> "list"],
                     [class |-> "PlexosConfig"]}]

\* __init__ without the test of solve_year
InitErrorNoYearCheck(cfg) ==
    IF cfg.output_config # "SiennaConfig" THEN "TypeError" ELSE "none"

\* the exception __init__ raises for this configuration, "none" if none
InitError(cfg) ==
    IF cfg.output_config # "SiennaConfig" THEN "TypeError"
    ELSE IF cfg.input_config.class = "ReEDSConfig"
            /\ cfg.input_config.solve_year = "list"
    THEN "NotImplementedError"
    ELSE "none"

\* the calls of run(), in order
RunOrder ==
    <<"bus", "load", "branch", "dc_branch", "gen", "reserves", "storage",
      "export_data", "pointers">>

\* the file each procedure writes
FileOf ==
    [bus |-> "bus.csv", load |-> "load.csv", branch |-> "branch.csv",
     dc_branch |-> "dc_branch.csv", gen |-> "gen.csv",
     reserves |-> "reserves.csv", storage |-> "storage.csv",
     export_data |-> "Data", pointers |-> "timeseries_pointers.json"]

\* before SiennaExporter(config, system) is called
InitExporter ==
    /\ config \in Configs
    /\ phase = "new"
    /\ step = 0
    /\ system = NoSystem
    /\ property_map = EmptyDict
    /\ executed = <<>>
    /\ rows_out = EmptyDict
    /\ files = EmptyDict
    /\ rename_used = EmptyDict
    /\ err = NoError
    /\ op_in = EmptyDict
    /\ op_obj = EmptyDict
    /\ op_ret = None
    /\ op_raised = "idle"

\* SiennaExporter(config, system): __init__
Construct ==
    /\ phase = "new"
    /\ IF InitError(config) # "none"
       THEN /\ phase' = "failed"
            /\ err' = [kind |-> InitError(config), at |-> "__init__"]
            /\ UNCHANGED <<step, system, property_map>>
       ELSE /\ phase' = "running"
            /\ step' = 1
            /\ system' \in Systems
            /\ property_map' \in PropertyMapChoices
            /\ err' = err
    /\ UNCHANGED <<config, executed, rows_out, files, rename_used>>
    /\ UNCHANGED opVars

\* the exception of a procedure caught and recorded, run() going on
AbortSwallowed(proc, kind) ==
    /\ step' = step + 1
    /\ phase' = IF step = Len(RunOrder) THEN "done" ELSE "running"
    /\ err' = [kind |-> kind, at |-> proc]
    /\ UNCHANGED <<rows_out, files, rename_used>>

\* a procedure of run() raised: the exception leaves run()
Abort(proc, kind) ==
    /\ phase' = "failed"
    /\ err' = [kind |-> kind, at |-> proc]
    /\ UNCHANGED <<step, rows_out, files, rename_used>>

\* a procedure of run() returned: run() goes on to its next call
Proceed ==
    /\ step' = step + 1
    /\ phase' = IF step = Len(RunOrder) THEN "done" ELSE "running"
    /\ err' = err

\* procedure proc of run() runs to its end with outcome o; opening its file
\* for writing either succeeds or raises OSError
Call(proc, o) ==
    /\ phase = "running"
    /\ RunOrder[step] = proc
    /\ executed' = Append(executed, proc)
    /\ \/ /\ o.raised # "none"
          /\ Abort(proc, o.raised)
       \/ /\ o.raised = "none"
          /\ o.skipped
          /\ Proceed
          /\ UNCHANGED <<rows_out, files, rename_used>>
       \/ /\ o.raised = "none"
          /\ ~o.skipped
          /\ \/ /\ rows_out' = Put(rows_out, proc, o.rows)
                /\ rename_used' = Put(rename_used, proc, o.map)
                /\ files' = Put(files, FileOf[proc], o.csv)
                /\ Proceed
             \/ Abort(proc, "OSError")
    /\ UNCHANGED <<config, system, property_map>>
    /\ UNCHANGED opVars

ProcessBus == Call("bus", ProcessBusData(system, property_map))

ProcessLoad == Call("load", ProcessLoadData(system, property_map))

ProcessBranch == Call("branch", ProcessBranchData(system, property_map))

ProcessDCBranch == Call("dc_branch", ProcessDCBranchData(system))

ProcessGen == Call("gen", ProcessGenData(system, property_map))

ProcessReserves == Call("reserves", ProcessReservesData(system, property_map))

ProcessStorage == Call("storage", ProcessStorageData(system, property_map))

ExportTimeSeries == Call("export_data", ExportData(config, system))

CreatePointers == Call("pointers", CreateTimeseriesPointers(config, system))

----------------------------------------------------------------------------
(* apply_operation_table_data on its own, over a range of components.      *)

CurvePoints == {<<0, 0>>, <<50, 1000>>, <<100, 2500>>, <<50, 0>>}

VariableTypes == {"CostCurve", "FuelCurve", "InputOutputCurve"}

FuelCosts == {None, [py |-> "float", v |-> 5], [py |-> "float", v |-> 0]}

\* the function data of a value curve: polynomial terms, points, or both
FunctionDatas ==
    {[constant_term |-> 100, proportional_term |-> 20],
     [constant_term |-> 100, proportional_term |-> 20, quadratic_term |-> 1]}
    \cup {[points |-> pts] : pts \in SeqsUpTo(CurvePoints, MaxPoints)}
    \cup {[constant_term |-> 100, proportional_term |-> 20, quadratic_term |-> 1,
           points |-> pts] : pts \in SeqsUpTo(CurvePoints, MaxPoints)}

VomCost == [function_data |-> [proportional_term |-> 10]]

\* the variable sub-object: every combination of its optional keys
Variables ==
    LET curves == {EmptyDict} \cup
                  {[value_curve |-> [function_data |-> fd]] : fd \in FunctionDatas}
        fuels == {EmptyDict} \cup {[fuel_cost |-> f] : f \in FuelCosts}
        voms == {EmptyDict, [vom_cost |-> VomCost]}
    IN  {DictMerge(DictMerge(c, f), v) : c \in curves, f \in fuels, v \in voms}

OpComponents ==
    {[name |-> "g"]} \cup
    {[name |-> "g", operation_cost |-> [variable |-> v, variable_type |-> t]] :
        v \in Variables, t \in VariableTypes}

\* before apply_operation_table_data(component) is called on its own
InitOp ==
    /\ config \in {c \in Configs : /\ c.output_config = "SiennaConfig"
                                   /\ c.input_config = [class |-> "PlexosConfig"]}
    /\ phase = "idle"
    /\ step = 0
    /\ system = NoSystem
    /\ property_map = EmptyDict
    /\ executed = <<>>
    /\ rows_out = EmptyDict
    /\ files = EmptyDict
    /\ rename_used = EmptyDict
    /\ err = NoError
    /\ op_in \in OpComponents
    /\ op_obj = op_in
    /\ op_ret = None
    /\ op_raised = "pending"

\* updated_component = apply_operation_table_data(component)
ApplyOperation ==
    /\ op_raised = "pending"
    /\ LET res == ApplyOperationTableData(op_in)
       IN  /\ op_obj' = res.obj
           /\ op_ret' = res.ret
           /\ op_raised' = res.raised
    /\ UNCHANGED op_in
    /\ UNCHANGED runVars

Init == InitExporter \/ InitOp

Next ==
    \/ Construct
    \/ ProcessBus
    \/ ProcessLoad
    \/ ProcessBranch
    \/ ProcessDCBranch
    \/ ProcessGen
    \/ ProcessReserves
    \/ ProcessStorage
    \/ ExportTimeSeries
    \/ CreatePointers
    \/ ApplyOperation

Spec == Init /\ [][Next]_vars

----------------------------------------------------------------------------
(* Properties.                                                             *)

ExpectedOrder ==
    <<"bus", "load", "branch", "dc_branch", "gen", "reserves", "storage",
      "export_data", "pointers">>

AllFiles ==
    {"bus.csv", "load.csv", "branch.csv", "dc_branch.csv", "gen.csv",
     "reserves.csv", "storage.csv", "Data", "timeseries_pointers.json"}

Storages == SelectSeq(system.generators, IsStorage)

Entered(proc) == proc \in Range(executed)

RunFailed == phase = "failed" /\ err.at # "__init__"

C1_State ==
    /\ Len(executed) <= Len(ExpectedOrder)
    /\ \A i \in DOMAIN executed : executed[i] = ExpectedOrder[i]
    /\ \A i \in DOMAIN executed : i < Len(executed) => err.at # executed[i]
    /\ \A f \in DOMAIN files :
          \E i \in DOMAIN executed : f = FileOf[executed[i]] /\ err.at # executed[i]
    /\ err.at \in Range(ExpectedOrder) =>
          /\ phase = "failed"
          /\ executed # <<>>
          /\ executed[Len(executed)] = err.at
          /\ "timeseries_pointers.json" \notin DOMAIN files

C1_Step ==
    /\ phase # "failed"
    /\ \A f \in DOMAIN files : f \in DOMAIN files' /\ files'[f] = files[f]
    /\ Len(executed') <= Len(executed) + 1

\* C1: run() enters its procedures in the order bus, load, AC branch, DC
\* branch, generator, reserves, storage, time-series export, pointers, one
\* at a time; once a procedure has raised nothing more is entered or written,
\* the files written before stay as they are, and timeseries_pointers.json
\* is not written.
C1_RunOrderAndAbort == []C1_State /\ [][C1_Step]_vars

C1_Witness ==
    /\ phase = "failed"
    /\ err = [kind |-> "NotImplementedError", at |-> "gen"]
    /\ DOMAIN files = {"bus.csv", "load.csv", "branch.csv", "dc_branch.csv"}

\* C2: with zero or several reserve maps process_reserves_data raises
\* nothing and writes no reserves.csv whatever reserves exist, without
\* storage devices process_storage_data raises nothing and writes no
\* storage.csv, and a run that ends has written every other file,
\* timeseries_pointers.json included.
C2_SkipsAreNotFatal ==
    LET no_single_map == Len(system.reserve_maps) # 1
        no_storage == Storages = <<>>
        omitted == (IF no_single_map THEN {"reserves.csv"} ELSE {}) \cup
                   (IF no_storage THEN {"storage.csv"} ELSE {})
    IN  /\ (Entered("reserves") /\ no_single_map) =>
              /\ err.at # "reserves"
              /\ "reserves.csv" \notin DOMAIN files
              /\ step > 6
        /\ (Entered("storage") /\ no_storage) =>
              /\ err.at # "storage"
              /\ "storage.csv" \notin DOMAIN files
              /\ step > 7
        /\ phase = "done" => DOMAIN files = AllFiles \ omitted

C2_Witness ==
    /\ phase = "done"
    /\ Len(system.reserve_maps) = 2
    /\ system.reserves # <<>>
    /\ Storages = <<>>
    /\ DOMAIN files = AllFiles \ {"reserves.csv", "storage.csv"}

\* C3: with exactly one reserve map, reserves.csv has one line for each
\* Reserve whose name is a key of the map and none for any other Reserve.
C3_ReservesInMapOnly ==
    (Len(system.reserve_maps) = 1 /\ "reserves.csv" \in DOMAIN files) =>
        LET lines == files["reserves.csv"]
            names == {lines[i]["name"] : i \in DOMAIN lines}
            reserve_names == {system.reserves[i]["name"] : i \in DOMAIN system.reserves}
        IN  /\ names = reserve_names \cap DOMAIN system.reserve_maps[1]
            /\ Len(lines) = Cardinality(names)
            /\ Len(rows_out["reserves"]) = Len(lines)

C3_Witness ==
    /\ "reserves.csv" \in DOMAIN files
    /\ Len(system.reserves) = 2
    /\ "r3" \in DOMAIN system.reserve_maps[1]
    /\ Len(files["reserves.csv"]) = 1
    /\ files["reserves.csv"][1]["name"] = "r1"

\* C4: process_storage_data hands over, for every storage component X,
\* exactly one row named X_head and one named X_tail, equal in every field
\* other than name and position: 2n rows for n storage components.
C4_TwoRowsPerStorage ==
    "storage" \in DOMAIN rows_out =>
        LET rows == rows_out["storage"]
            named(n) == {i \in DOMAIN rows : rows[i]["name"] = n}
            others(r) == DOMAIN r \ {"name", "position"}
        IN  /\ Len(rows) = 2 * Len(Storages)
            /\ Len(files["storage.csv"]) = 2 * Len(Storages)
            /\ \A s \in DOMAIN Storages :
                  LET X == Storages[s]["name"]
                  IN  /\ Cardinality(named(X \o "_head")) = 1
                      /\ Cardinality(named(X \o "_tail")) = 1
                      /\ \A h \in named(X \o "_head"), t \in named(X \o "_tail") :
                            /\ others(rows[h]) = others(rows[t])
                            /\ \A k \in others(rows[h]) : rows[h][k] = rows[t][k]

C4_Witness ==
    /\ "storage" \in DOMAIN rows_out
    /\ Len(Storages) = 2
    /\ Len(rows_out["storage"]) = 4

OpCalled == op_raised \notin {"idle", "pending"}

OpHasVariable ==
    /\ "operation_cost" \in DOMAIN op_in
    /\ op_in["operation_cost"]["variable"] # EmptyDict

OpVariable == op_in["operation_cost"]["variable"]

OpPiecewise ==
    /\ OpHasVariable
    /\ "value_curve" \in DOMAIN OpVariable
    /\ "points" \in DOMAIN OpVariable["value_curve"]["function_data"]

OpPoints == OpVariable["value_curve"]["function_data"]["points"]

OpFuelCostNull ==
    OpHasVariable /\ "fuel_cost" \in DOMAIN OpVariable /\ OpVariable["fuel_cost"] = None

\* the fields a dict d holds for the points: key prefix p, coordinate c,
\* for the 0-based indices in I
HoldsPoints(d, p, c, I) ==
    \A i \in I :
        /\ (p \o IntToStr(i)) \in DOMAIN d
        /\ d[p \o IntToStr(i)] = OpPoints[i + 1][c]

HasNoKey(d, p, I) == \A i \in I : (p \o IntToStr(i)) \notin DOMAIN d

ExamplePoints == <<<<0, 0>>, <<50, 1000>>, <<100, 2500>>>>

\* C5: for a CostCurve with points (x_i, y_i), apply_operation_table_data
\* (once past the fuel_cost assertion) sets output_point_i = x_i and
\* cost_point_i = y_i for every i on the record, which it returns, and sets
\* no heat_rate_avg_0 or heat_rate_incr_i.
C5_CostCurveRecord ==
    (OpCalled /\ OpPiecewise /\ ~OpFuelCostNull
        /\ op_in["operation_cost"]["variable_type"] = "CostCurve") =>
        LET I == 0 .. (Len(OpPoints) - 1)
        IN  /\ op_raised = "none"
            /\ op_ret = op_obj
            /\ HoldsPoints(op_ret, "output_point_", 1, I)
            /\ HoldsPoints(op_ret, "cost_point_", 2, I)
            /\ HasNoKey(op_ret, "heat_rate_avg_", {0})
            /\ HasNoKey(op_ret, "heat_rate_incr_", I)

C5_Witness ==
    /\ op_raised = "none"
    /\ OpPiecewise
    /\ op_in["operation_cost"]["variable_type"] = "CostCurve"
    /\ OpPoints = ExamplePoints
    /\ op_ret["output_point_1"] = 50
    /\ op_ret["cost_point_2"] = 2500

\* C6: for a FuelCurve with points (x_i, y_i), apply_operation_table_data
\* (once past the fuel_cost assertion) sets output_point_i = x_i for every i,
\* heat_rate_avg_0 = y_0 and heat_rate_incr_i = y_i for i >= 1 on the record,
\* which it returns, and sets no cost_point_i, no heat_rate_incr_0 and no
\* heat_rate_avg_i for i >= 1.
C6_FuelCurveRecord ==
    (OpCalled /\ OpPiecewise /\ ~OpFuelCostNull
        /\ op_in["operation_cost"]["variable_type"] = "FuelCurve") =>
        LET I == 0 .. (Len(OpPoints) - 1)
        IN  /\ op_raised = "none"
            /\ op_ret = op_obj
            /\ HoldsPoints(op_ret, "output_point_", 1, I)
            /\ HoldsPoints(op_ret, "heat_rate_avg_", 2, I \cap {0})
            /\ HoldsPoints(op_ret, "heat_rate_incr_", 2, I \ {0})
            /\ HasNoKey(op_ret, "cost_point_", I)
            /\ HasNoKey(op_ret, "heat_rate_incr_", {0})
            /\ HasNoKey(op_ret, "heat_rate_avg_", I \ {0})

C6_Witness ==
    /\ op_raised = "none"
    /\ OpPiecewise
    /\ op_in["operation_cost"]["variable_type"] = "FuelCurve"
    /\ OpPoints = ExamplePoints
    /\ op_ret["heat_rate_avg_0"] = 0
    /\ op_ret["heat_rate_incr_2"] = 2500

\* a generator record with a piecewise value curve
Piecewise(gen) ==
    /\ "operation_cost" \in DOMAIN gen
    /\ "value_curve" \in DOMAIN gen["operation_cost"]["variable"]
    /\ "points" \in DOMAIN gen["operation_cost"]["variable"]["value_curve"]["function_data"]

Supported(gen) == gen["operation_cost"]["variable_type"] \in {"CostCurve", "FuelCurve"}

\* C7: on a record with a piecewise point list and a variable_type other
\* than CostCurve and FuelCurve, apply_operation_table_data (once past the
\* fuel_cost assertion) raises NotImplementedError and returns no record;
\* a run whose generator procedure meets such a record fails there with
\* that error and writes no gen.csv.
C7_UnsupportedVariantFails ==
    /\ (OpCalled /\ OpPiecewise /\ ~OpFuelCostNull
           /\ op_in["operation_cost"]["variable_type"] \notin {"CostCurve", "FuelCurve"}) =>
          /\ op_raised = "NotImplementedError"
          /\ op_ret = None
    /\ (Entered("gen") /\ \E i \in DOMAIN system.generators :
                             /\ Piecewise(system.generators[i])
                             /\ ~Supported(system.generators[i])) =>
          /\ phase = "failed"
          /\ err.at = "gen"
          /\ err.kind = "NotImplementedError"
          /\ "gen.csv" \notin DOMAIN files

C7_Witness ==
    /\ phase = "failed"
    /\ err = [kind |-> "NotImplementedError", at |-> "gen"]
    /\ Len(system.generators) = 2

\* C8: when variable has a fuel_cost key, apply_operation_table_data raises
\* (AssertionError) if the value is null and otherwise sets fuel_price =
\* 1000 * fuel_cost on the record, also on the one it returns; without the
\* key it sets no fuel_price.
C8_FuelPrice ==
    OpCalled =>
        IF OpHasVariable /\ "fuel_cost" \in DOMAIN OpVariable
        THEN IF OpVariable["fuel_cost"] = None
             THEN op_raised = "AssertionError" /\ "fuel_price" \notin DOMAIN op_obj
             ELSE /\ op_raised # "AssertionError"
                  /\ "fuel_price" \in DOMAIN op_obj
                  /\ op_obj["fuel_price"] = 1000 * OpVariable["fuel_cost"].v
                  /\ op_raised = "none" =>
                        /\ "fuel_price" \in DOMAIN op_ret
                        /\ op_ret["fuel_price"] = 1000 * OpVariable["fuel_cost"].v
        ELSE "fuel_price" \notin DOMAIN op_obj

C8_Witness ==
    /\ op_raised = "none"
    /\ OpHasVariable
    /\ "fuel_cost" \in DOMAIN OpVariable
    /\ OpVariable["fuel_cost"] = [py |-> "float", v |-> 5]
    /\ OpPiecewise
    /\ op_ret["fuel_price"] = 5000

MultipleSolveYears ==
    /\ config.input_config.class = "ReEDSConfig"
    /\ config.input_config.solve_year = "list"

\* C9: with an output configuration that is not a SiennaConfig, or with
\* several solve years, the constructor raises, and then no procedure has
\* been entered and no file written.
C9_ConstructorRaises ==
    (phase \notin {"new", "idle"}
        /\ (config.output_config # "SiennaConfig" \/ MultipleSolveYears)) =>
        /\ phase = "failed"
        /\ err.at = "__init__"
        /\ err.kind = IF config.output_config # "SiennaConfig"
                      THEN "TypeError" ELSE "NotImplementedError"
        /\ executed = <<>>
        /\ files = EmptyDict
        /\ rows_out = EmptyDict

C9_Witness ==
    /\ phase = "failed"
    /\ err = [kind |-> "NotImplementedError", at |-> "__init__"]
    /\ config.output_config = "SiennaConfig"

EntityKeyMapping ==
    [bus |-> BusKeyMapping, load |-> LoadKeyMapping, branch |-> BranchKeyMapping,
     gen |-> GenKeyMapping, reserves |-> ReserveKeyMapping]

\* C10: in the bus, load, AC branch, generator and reserve procedures a key
\* renamed by both the entity's key mapping and the global property map is
\* renamed to the entity's target name.
C10_OverrideWins ==
    \A proc \in DOMAIN rename_used \cap DOMAIN EntityKeyMapping :
        \A k \in DOMAIN EntityKeyMapping[proc] \cap DOMAIN property_map :
            rename_used[proc][k] = EntityKeyMapping[proc][k]

\* the same, for the four procedures other than the reserve procedure
OverrideWinsOutsideReserves ==
    \A proc \in (DOMAIN rename_used \cap DOMAIN EntityKeyMapping) \ {"reserves"} :
        \A k \in DOMAIN EntityKeyMapping[proc] \cap DOMAIN property_map :
            rename_used[proc][k] = EntityKeyMapping[proc][k]

----------------------------------------------------------------------------
(* The AC branch rows.                                                     *)

\* the branch has a tap of its own: the attribute exists and is not null
HasOwnTap(branch) == "tap" \in DOMAIN branch /\ branch["tap"] # None

\* row is the branch row of this branch
BranchRowOf(row, branch) ==
    /\ row["name"] = branch["name"]
    /\ row["is_transformer"] = (branch["class_type"] = "Transformer2W")
    /\ row["tap"] = IF HasOwnTap(branch) THEN branch["tap"].v ELSE DefaultTap

\* C11: every AC branch row written by process_branch_data has is_transformer
\* true exactly when the branch's class name is Transformer2W and false for
\* every other branch, and its tap is the branch's own tap when it has one
\* and 1.0 only when the tap is absent or null.
C11_TransformerFlagAndTap ==
    "branch" \in DOMAIN rows_out =>
        LET rows == rows_out["branch"]
            csv == files["branch.csv"]
        IN  /\ Len(rows) = Len(system.ac_branches)
            /\ Len(csv) = Len(system.ac_branches)
            /\ \A i \in DOMAIN system.ac_branches :
                  /\ BranchRowOf(rows[i], system.ac_branches[i])
                  /\ BranchRowOf(csv[i], system.ac_branches[i])

\* branch.csv is written for a transformer with its own tap, a transformer
\* with a null tap, a line without a tap and another class with its own tap
C11_Witness ==
    /\ "branch" \in DOMAIN rows_out
    /\ \E i, j, k, l \in DOMAIN system.ac_branches :
          LET b == system.ac_branches
              rows == rows_out["branch"]
          IN  /\ b[i]["class_type"] = "Transformer2W" /\ HasOwnTap(b[i])
              /\ rows[i]["is_transformer"] /\ rows[i]["tap"] = 105
              /\ b[j]["class_type"] = "Transformer2W" /\ b[j]["tap"] = None
              /\ rows[j]["is_transformer"] /\ rows[j]["tap"] = DefaultTap
              /\ b[k]["class_type"] = "Line" /\ "tap" \notin DOMAIN b[k]
              /\ ~rows[k]["is_transformer"] /\ rows[k]["tap"] = DefaultTap
              /\ b[l]["class_type"] = "TapTransformer" /\ HasOwnTap(b[l])
              /\ ~rows[l]["is_transformer"] /\ rows[l]["tap"] = 98

----------------------------------------------------------------------------
(* The generator rows.                                                     *)

\* the export records process_gen_data builds, in store order
GenExportRecords ==
    LET map == DictMerge(property_map, GenKeyMapping)
    IN  [i \in DOMAIN system.generators |->
            GenLaterStages(ApplyOperationTableData(system.generators[i]).ret, map)]

\* the number of times x occurs in seq
Occurrences(seq, x) == Cardinality({i \in DOMAIN seq : seq[i] = x})

\* C12: the rows process_gen_data hands to the table writer are a
\* permutation of the generator export records (none dropped, none
\* duplicated) in descending order of name: the name of every row is greater
\* than or equal to the name of the row after it.
C12_GenRowsSortedDescending ==
    "gen" \in DOMAIN rows_out =>
        LET rows == rows_out["gen"]
            csv == files["gen.csv"]
        IN  /\ Len(rows) = Len(GenExportRecords)
            /\ \A i \in DOMAIN GenExportRecords :
                  Occurrences(rows, GenExportRecords[i])
                      = Occurrences(GenExportRecords, GenExportRecords[i])
            /\ \A i \in DOMAIN rows :
                  i < Len(rows) =>
                      NameRank(rows[i]["name"]) >= NameRank(rows[i + 1]["name"])
            /\ Len(csv) = Len(rows)
            /\ \A i \in DOMAIN rows : csv[i]["name"] = rows[i]["name"]

\* gen.csv is written for two generators the store holds in ascending order
\* of name: the sort has exchanged them
C12_Witness ==
    /\ "gen" \in DOMAIN rows_out
    /\ Len(system.generators) = 2
    /\ NameRank(system.generators[1]["name"]) < NameRank(system.generators[2]["name"])
    /\ rows_out["gen"][1]["name"] = system.generators[2]["name"]
    /\ rows_out["gen"][2]["name"] = system.generators[1]["name"]
    /\ rows_out["gen"] # GenExportRecords

----------------------------------------------------------------------------
(* The time series pointers.                                               *)

\* the pointer records of the array for metadata m of component c
PointersOf(array, c, m) ==
    {i \in DOMAIN array :
        /\ array[i]["category"] = c.category
        /\ array[i]["component_name"] = c.name
        /\ array[i]["name"] = c.metadata[m].variable_name
        /\ array[i]["resolution"] = c.metadata[m].resolution}

\* the (component, metadata) pairs of the store, as pairs of indices
StorePairs ==
    UNION {{<<c, m>> : m \in DOMAIN system.time_series[c].metadata} :
              c \in DOMAIN system.time_series}

\* C13: create_timeseries_pointers emits exactly one pointer record for
\* every (component, metadata) pair of every component that carries a time
\* series, none for a component without one and nothing else; the records
\* are in iteration order (components in store order, then the metadata of
\* each in list order) in the single array written to
\* timeseries_pointers.json, which may be empty.
C13_OnePointerPerPair ==
    "pointers" \in DOMAIN rows_out =>
        LET array == files["timeseries_pointers.json"]
            store == system.time_series
        IN  /\ array = rows_out["pointers"]
            /\ \A p \in StorePairs :
                  Cardinality(PointersOf(array, store[p[1]], p[2])) = 1
            /\ Len(array) = Cardinality(StorePairs)
            /\ \A c \in DOMAIN store :
                  store[c].metadata = <<>> =>
                      \A i \in DOMAIN array :
                          array[i]["component_name"] # store[c].name
            /\ \A p, q \in StorePairs :
                  (p[1] < q[1] \/ (p[1] = q[1] /\ p[2] < q[2])) =>
                      \A i \in PointersOf(array, store[p[1]], p[2]),
                         j \in PointersOf(array, store[q[1]], q[2]) : i < j

\* the pointers are written for a store of three components without time
\* series, one with a single series and then one with two
C13_Witness ==
    /\ "pointers" \in DOMAIN rows_out
    /\ Len(system.generators) = 2
    /\ system.generators[1]["name"] = "g_b"
    /\ system.generators[2]["name"] = "g_a"
    /\ Len(files["timeseries_pointers.json"]) = 3
    /\ files["timeseries_pointers.json"][1]["component_name"] = "g_b"
    /\ files["timeseries_pointers.json"][2]["name"] = "max_active_power"
    /\ files["timeseries_pointers.json"][3]["name"] = "rating"

\* the pointers are written for a store in which no component has a time
\* series: the array is empty
C13_EmptyArrayWritten ==
    /\ "pointers" \in DOMAIN rows_out
    /\ "timeseries_pointers.json" \in DOMAIN files
    /\ files["timeseries_pointers.json"] = <<>>

----------------------------------------------------------------------------
(* The positions of the storage rows.                                      *)

\* the rows of storage.csv's records that carry this name
StorageRowsNamed(n) ==
    {i \in DOMAIN rows_out["storage"] : rows_out["storage"][i]["name"] = n}

\* C14: of the two rows process_storage_data produces for a storage
\* component named X, the row named X_head carries position "head" and the
\* row named X_tail carries position "tail".
C14_HeadAndTailPositions ==
    "storage" \in DOMAIN rows_out =>
        \A s \in DOMAIN Storages :
            LET X == Storages[s]["name"]
                rows == rows_out["storage"]
            IN  /\ \A h \in StorageRowsNamed(X \o "_head") :
                      rows[h]["position"] = "head"
                /\ \A t \in StorageRowsNamed(X \o "_tail") :
                      rows[t]["position"] = "tail"

\* the two rows are separate records: the position set on the head row after
\* the copy was taken (line 474) is not on the tail row, which keeps the
\* position the copy was taken with
StorageRowsIndependent ==
    "storage" \in DOMAIN rows_out =>
        \A s \in DOMAIN Storages :
            LET X == Storages[s]["name"]
                rows == rows_out["storage"]
            IN  \A h \in StorageRowsNamed(X \o "_head"),
                   t \in StorageRowsNamed(X \o "_tail") :
                    /\ rows[h]["position"] = "tail"
                    /\ rows[t]["position"] = "head"

====
